---- MODULE Spec2Model ----
(***************************************************************************)
(* Streaming transport of gpillon/museum: the useWebSocket hook            *)
(* (frontend/src/utils/coordinateTransform.ts, lines 185-415).             *)
(*                                                                         *)
(* React state is a variable holding the latest value given to its setter; *)
(* the values the effects last ran with are kept in rIsConnected, rError   *)
(* and rQueueSize.  Render is the commit that re-runs the effects whose    *)
(* dependencies changed.  Browser objects (sockets, timers, intervals) are *)
(* part of the state; each socket event and each timer callback is one     *)
(* action.                                                                 *)
(***************************************************************************)
EXTENDS Integers, Sequences, FiniteSets, TLC

(* ---------------------------- bounds ----------------------------------- *)
MaxSockets == 2      \* sockets created in one run of Spec
MaxEnq == 2          \* messages queued between two emptyings of the queue, Spec
MaxIn == 1           \* inbound socket messages in one run
MaxTimers == 2       \* timer ids that can be pending at once
MaxOpens == 2        \* sockets that open in one run of Spec
MaxSocketsR == 6     \* as MaxSockets, SpecRetry
MaxOpensR == 1       \* as MaxOpens, SpecRetry and SpecQueue
MaxEnqR == 4         \* as MaxEnq, SpecRetry
MaxSocketsQ == 2     \* as MaxSockets, SpecQueue
MaxEnqQ == 52        \* as MaxEnq, SpecQueue
MaxInI == 3          \* as MaxIn, SpecInbound
MaxWindowLog == 22   \* in-range samples given to addLatency, SpecWindow
MaxSpecial == 2      \* special samples given to addLatency, SpecWindow
MaxTrendLog == 10    \* samples given to addLatency, SpecTrend
MaxNowA == 600       \* last instant of the clock, SpecAdmit
MaxDropsA == 4       \* rejected calls of shouldDropFrame, SpecAdmit
MaxNow == 200        \* last instant of the clock, SpecFrames
MaxDrops == 2        \* rejected calls of shouldDropFrame, SpecFrames
MaxSent == 2         \* calls of trackSentFrame, SpecFrames
MaxNowH == 1100      \* last instant of the clock, SpecHistory
MaxDropsH == 2       \* rejected calls of shouldDropFrame, SpecHistory
MaxSentH == 22       \* calls of trackSentFrame, SpecHistory
MaxOpensU == 1       \* open events, SpecRetune
MaxInU == 2          \* inbound messages, SpecRetune
MaxNowU == 400       \* last instant of the clock, SpecRetune
MaxFramesU == 3      \* admitted frames, SpecRetune
MaxPendingU == 2     \* frames in preparation at once, SpecRetune
MaxDropsU == 1       \* rejected frames, SpecRetune
MaxLogU == 2         \* in-range latencies given to the monitor, SpecRetune
MaxSpecialU == 3     \* other latencies given to the monitor, SpecRetune
MaxSocketsP == 2     \* as MaxSockets, SpecProducer
MaxOpensP == 2       \* as MaxOpens, SpecProducer
MaxNowP == 500       \* last instant of the clock, SpecProducer
MaxFramesP == 4      \* admitted frames, SpecProducer
MaxPendingP == 3     \* frames whose blob is in preparation at once, SpecProducer
MaxDropsP == 1       \* rejected calls of shouldDropFrame, SpecProducer

(* ------------------------ program constants ---------------------------- *)
maxReconnectAttempts == 5
QueueLimit == 50
LatencyWindow == 10
DefaultFrameRate == 10
HeartbeatInterval == 30000
BackoffBase == 1000
BackoffCap == 30000

NULL == "null"
NoCall == [id |-> 0, kind |-> "none"]
NoMsg == [id |-> 0, kind |-> "none", lat |-> 0]
NoLast == [id |-> 0, kind |-> "null"]   \* lastMessage === null
NoSample == [given |-> FALSE, v |-> 0]
NoAdmit == [some |-> FALSE, t |-> 0]
ZeroFps == [num |-> 0, den |-> 1]
NoFroCall ==
  [op |-> "none", dropped |-> FALSE, fps |-> ZeroFps, lat |-> 0, rate |-> 0]
NoFrame == [id |-> 0, queueSize |-> 0, counted |-> "none"]
NoExtract ==
  [error |-> "no call", timestamp |-> <<0, 0, 0, 0>>, uuid |-> <<>>, data |-> <<>>]

NoAdd ==
  [called |-> FALSE, buffer |-> <<>>, timestamp |-> <<0, 0, 0, 0>>, uuid |-> <<>>,
   error |-> "none"]

ErrSocket == "WebSocket error occurred"
ErrCreate == "Failed to create WebSocket connection"
ErrMax == "Max reconnection attempts reached"

VARIABLES
  phase,                \* "init" | "mounted" | "unmounted" (component life)
  urlValid,             \* whether new WebSocket(url) succeeds for this url
  isConnected, lastMessage, error, messageQueueSize, averageLatency,
  connectionStatus,     \* React state of the hook
  wsRef, messageQueue, latencyHistory, reconnectTimeoutRef, heartbeatRef,
  reconnectAttempts,    \* refs of the hook
  rIsConnected, rError, rQueueSize,   \* dependency values of the last commit
  hasCleanup,           \* the reconnect effect's last run returned a cleanup
  socks,                \* the WebSocket objects created so far
  inTask,               \* socket whose error event ran and whose close event follows
  timers,               \* pending setTimeout callbacks of the reconnect effect
  heartbeats,           \* live setInterval callbacks: the socket each pings, its period
  sent,                 \* what the last step handed to ws.send, in order
  called,               \* the argument of sendMessage when the last step was a call of it
  received,             \* the inbound message when the last step was a message event
  enqLog,               \* messages pushed on the queue since it was last emptied
  nextIn,               \* number of the next inbound message
  opens,                \* number of open events so far
  lmHistory,            \* LatencyMonitor.latencyHistory
  lmLog,                \* the in-range samples given to addLatency so far
  lmLast,               \* the sample when the last step was a call of addLatency
  lmSpecials,           \* number of special samples given so far
  lmTrend,              \* the result when the last step was a call of getLatencyTrend
  now,                  \* performance.now(), in ms
  targetFps, frameHistory, lastFrameTime, frameCount, lastFpsUpdate,
  sentFrames, droppedFramesCount,
  sentFrameTimes,       \* fields of the FrameRateOptimizer
  nextUuid,             \* number of the next frame uuid
  lastAdmit,            \* time of the last call of shouldDropFrame that returned false
  froCall,              \* the FrameRateOptimizer call of the last step and its result
  isStreaming, queueDroppedFramesRef,
  frameCountRef,        \* state and refs of PoseDetector
  pendingFrames,        \* admitted frames whose blob is not ready yet
  frameDone,            \* the frame whose blob callback ran in the last step
  mdAdd,                \* the addMetadata call that made mdBuf, and its outcome
  mdBuf,                \* a buffer: the last one encoded, or a prefix of it
  mdOut                 \* the outcome when the last step was extractMetadata(mdBuf)

vars == <<phase, urlValid, isConnected, lastMessage, error, messageQueueSize,
          averageLatency, connectionStatus, wsRef, messageQueue,
          latencyHistory, reconnectTimeoutRef, heartbeatRef,
          reconnectAttempts, rIsConnected, rError, rQueueSize, hasCleanup,
          socks, inTask, timers, heartbeats, sent, called, received, enqLog,
          nextIn, opens, lmHistory, lmLog, lmLast, lmSpecials,
          lmTrend, now, targetFps, frameHistory, lastFrameTime, frameCount,
          lastFpsUpdate, sentFrames, droppedFramesCount, sentFrameTimes,
          nextUuid, lastAdmit, froCall, isStreaming, queueDroppedFramesRef,
          frameCountRef, pendingFrames, frameDone, mdAdd, mdBuf, mdOut>>

reactState == <<isConnected, lastMessage, error, messageQueueSize,
                averageLatency, connectionStatus>>
renderedDeps == <<rIsConnected, rError, rQueueSize, hasCleanup>>
counts == <<nextIn, opens>>
inbound == <<lastMessage, averageLatency, latencyHistory, nextIn>>
\* state of the objects of performanceUtils.ts
lmVars == <<lmHistory, lmLog, lmLast, lmSpecials, lmTrend>>
froFields == <<targetFps, frameHistory, lastFrameTime, frameCount,
               lastFpsUpdate, sentFrames, droppedFramesCount, sentFrameTimes>>
froVars == <<now, froFields, nextUuid, lastAdmit, froCall>>
prodVars == <<isStreaming, pendingFrames, queueDroppedFramesRef, frameCountRef,
              frameDone>>
mdVars == <<mdAdd, mdBuf, mdOut>>
perfVars == <<lmVars, froVars, prodVars, mdVars>>

(* ----------------------------- helpers --------------------------------- *)
Min(a, b) == IF a < b THEN a ELSE b

Pow2(n) == IF n <= 0 THEN 1 ELSE 2 ^ n

LastN(s, n) == IF Len(s) <= n THEN s ELSE SubSeq(s, Len(s) - n + 1, Len(s))

RECURSIVE SumSeq(_)
SumSeq(s) == IF s = <<>> THEN 0 ELSE Head(s) + SumSeq(Tail(s))

\* A state setter: React ignores updates of a component that is gone.
SetState(old, new) == IF phase = "mounted" \/ phase = "init" THEN new ELSE old

\* wsRef.current && wsRef.current.readyState === WebSocket.OPEN
WsOpen == wsRef # 0 /\ socks[wsRef].rs = "open"

\* BackoffTime without the ceiling.
BackoffTimeUncapped(k) == BackoffBase * Pow2(k)

\* Math.min(1000 * Math.pow(2, attempts), 30000)
BackoffTime(k) == Min(BackoffBase * Pow2(k), BackoffCap)

(* --------------------------- sendMessage ------------------------------- *)
\* The part of the state sendMessage works on.
Store == [queue |-> messageQueue, size |-> messageQueueSize,
          sent |-> sent, enq |-> enqLog]

\* ws.send of a sendMessage payload: an ArrayBuffer goes out as it is, any
\* other value is spread into an object with a timestamp and stringified.
Transmission(sock, data) ==
  [sock |-> sock, kind |-> data.kind, id |-> data.id,
   timestamp |-> (data.kind # "binary"), header |-> FALSE]

\* Enqueue dropping the newest message over the limit (pop for shift).
EnqueueDropNewest(st, data) ==
  LET pushed == Append(st.queue, data)
  IN [st EXCEPT !.queue = IF Len(pushed) > QueueLimit
                          THEN SubSeq(pushed, 1, Len(pushed) - 1) ELSE pushed,
                !.size = SetState(st.size, Len(pushed)),
                !.enq = Append(st.enq, data)]

\* Queue branch: push, publish the length, then drop the oldest over the limit.
Enqueue(st, data) ==
  LET pushed == Append(st.queue, data)
  IN [st EXCEPT !.queue = IF Len(pushed) > QueueLimit THEN Tail(pushed) ELSE pushed,
                !.size = SetState(st.size, Len(pushed)),
                !.enq = Append(st.enq, data)]

\* sendMessage without the readyState test: sends on any socket it holds.
sendMessageAnyState(st, data) ==
  IF wsRef # 0
  THEN [st EXCEPT !.sent = Append(st.sent, Transmission(wsRef, data))]
  ELSE Enqueue(st, data)

\* sendMessage that queues whatever the socket's state.
sendMessageAlwaysQueue(st, data) == Enqueue(st, data)

sendMessage(st, data) ==
  IF WsOpen
  THEN [st EXCEPT !.sent = Append(st.sent, Transmission(wsRef, data))]
  ELSE Enqueue(st, data)

\* queuedMessages.forEach(msg => sendMessage(msg))
RECURSIVE SendAll(_, _)
SendAll(st, msgs) ==
  IF msgs = <<>> THEN st ELSE SendAll(sendMessage(st, Head(msgs)), Tail(msgs))

(* ----------------------------- connect --------------------------------- *)
\* ws.close(): a socket that is still connecting is failed (its close task
\* fires error before close); an open one starts the closing handshake.
CloseSocket(ss, s) ==
  IF ss[s].rs = "connecting" THEN [ss EXCEPT ![s] = [rs |-> "closing", failed |-> TRUE]]
  ELSE IF ss[s].rs = "open" THEN [ss EXCEPT ![s] = [rs |-> "closing", failed |-> FALSE]]
  ELSE ss

\* connect(): close the current socket, create the next one.  The result is
\* the part of the state connect writes.
connect ==
  LET closed == IF wsRef # 0 THEN CloseSocket(socks, wsRef) ELSE socks
  IN IF urlValid
     THEN [socks |-> Append(closed, [rs |-> "connecting", failed |-> FALSE]),
           wsRef |-> Len(socks) + 1,
           status |-> SetState(connectionStatus, "connecting"),
           error |-> error]
     ELSE [socks |-> closed,
           wsRef |-> wsRef,
           status |-> SetState(connectionStatus, "disconnected"),
           error |-> SetState(error, ErrCreate)]

\* if (heartbeatRef.current) clearInterval(heartbeatRef.current): the interval
\* is named by the socket whose onopen started it.
ClearInterval(hs, ref) == IF ref # 0 THEN {h \in hs : h.sock # ref} ELSE hs

(* ------------------------ the reconnect effect ------------------------- *)
\* The cleanup returned by the previous run: clearTimeout(reconnectTimeoutRef.current)
\* The reconnect effect without its cleanup.
CleanupTimersKeepsAll(ts) == ts

\* The cleanup of the reconnect effect: clearTimeout of the timer the ref names
CleanupTimers(ts) ==
  IF hasCleanup /\ reconnectTimeoutRef # 0
  THEN {t \in ts : t.id # reconnectTimeoutRef} ELSE ts

\* The reconnect effect scheduling a retry whatever the attempts ref holds.
ReconnectEffectNoLimit(conn, err, ts, st, err0) ==
  IF ~conn /\ err = NULL
  THEN LET id == CHOOSE i \in 1..MaxTimers : i \notin {t.id : t \in ts}
       IN [timers |-> ts \cup {[id |-> id,
                                delay |-> BackoffTime(reconnectAttempts),
                                attempt |-> reconnectAttempts]},
           ref |-> id, status |-> "reconnecting", error |-> err0,
           cleanup |-> TRUE]
  ELSE [timers |-> ts, ref |-> reconnectTimeoutRef, status |-> st,
        error |-> err0, cleanup |-> FALSE]

\* Body of the reconnect effect for the rendered values (conn, err), reading
\* the attempts ref; ts are the timers left by the cleanup, st and err0 the
\* status and error before the body.
ReconnectEffect(conn, err, ts, st, err0) ==
  IF ~conn /\ err = NULL /\ reconnectAttempts < maxReconnectAttempts
  THEN LET id == CHOOSE i \in 1..MaxTimers :
                   /\ i \notin {t.id : t \in ts}
                   /\ \A j \in 1..(i-1) : j \in {t.id : t \in ts}
       IN [timers |-> ts \cup {[id |-> id,
                                delay |-> BackoffTime(reconnectAttempts),
                                attempt |-> reconnectAttempts]},
           ref |-> id, status |-> "reconnecting", error |-> err0,
           cleanup |-> TRUE]
  ELSE IF reconnectAttempts >= maxReconnectAttempts
  THEN [timers |-> ts, ref |-> reconnectTimeoutRef, status |-> "disconnected",
        error |-> ErrMax, cleanup |-> FALSE]
  ELSE [timers |-> ts, ref |-> reconnectTimeoutRef, status |-> st,
        error |-> err0, cleanup |-> FALSE]

\* The effect can allocate a timer id.
CanSchedule(ts) == \E i \in 1..MaxTimers : i \notin {t.id : t \in ts}

(* ------------------------------- Init ---------------------------------- *)
Init ==
  /\ phase = "init"
  /\ urlValid \in BOOLEAN
  /\ isConnected = FALSE
  /\ lastMessage = NoLast
  /\ error = NULL
  /\ messageQueueSize = 0
  /\ averageLatency = <<0, 1>>
  /\ connectionStatus = "disconnected"
  /\ wsRef = 0
  /\ messageQueue = <<>>
  /\ latencyHistory = <<>>
  /\ reconnectTimeoutRef = 0
  /\ heartbeatRef = 0
  /\ reconnectAttempts = 0
  /\ rIsConnected = FALSE
  /\ rError = NULL
  /\ rQueueSize = 0
  /\ hasCleanup = FALSE
  /\ socks = <<>>
  /\ inTask = 0
  /\ timers = {}
  /\ heartbeats = {}
  /\ sent = <<>>
  /\ called = NoCall
  /\ received = NoMsg
  /\ enqLog = <<>>
  /\ nextIn = 1
  /\ opens = 0
  /\ lmHistory = <<>>
  /\ lmLog = <<>>
  /\ lmLast = NoSample
  /\ lmSpecials = 0
  /\ lmTrend = "none"
  /\ now = 0
  /\ targetFps = DefaultFrameRate
  /\ frameHistory = <<>>
  /\ lastFrameTime = 0
  /\ frameCount = 0
  /\ lastFpsUpdate = 0
  /\ sentFrames = <<>>
  /\ droppedFramesCount = 0
  /\ sentFrameTimes = <<>>
  /\ nextUuid = 1
  /\ lastAdmit = NoAdmit
  /\ froCall = NoFroCall
  /\ isStreaming = FALSE
  /\ queueDroppedFramesRef = 0
  /\ frameCountRef = 0
  /\ pendingFrames = <<>>
  /\ frameDone = NoFrame
  /\ mdAdd = NoAdd
  /\ mdBuf = <<>>
  /\ mdOut = NoExtract

(* ------------------------------ Mount ---------------------------------- *)
\* First commit: the flush effect finds nothing, the second effect calls
\* connect(), the reconnect effect runs with isConnected = false, error = null.
Mount ==
  /\ phase = "init"
  /\ LET c == connect
         r == ReconnectEffect(FALSE, NULL, {}, c.status, c.error)
     IN /\ socks' = c.socks
        /\ wsRef' = c.wsRef
        /\ timers' = r.timers
        /\ reconnectTimeoutRef' = r.ref
        /\ connectionStatus' = r.status
        /\ error' = r.error
        /\ hasCleanup' = r.cleanup
  /\ phase' = "mounted"
  /\ rIsConnected' = FALSE
  /\ rError' = NULL
  /\ rQueueSize' = 0
  /\ sent' = <<>>
  /\ called' = NoCall
  /\ UNCHANGED perfVars
  /\ received' = NoMsg
  /\ UNCHANGED <<urlValid, isConnected, messageQueueSize, messageQueue,
                 heartbeatRef, reconnectAttempts, inTask, heartbeats,
                 enqLog, inbound, opens>>

(* ------------------------------ Render --------------------------------- *)
RenderPending ==
  /\ phase = "mounted"
  /\ <<isConnected, error, messageQueueSize>> # <<rIsConnected, rError, rQueueSize>>

\* A commit after a change of isConnected, error or messageQueueSize: the
\* cleanup of the reconnect effect, then the flush effect (deps isConnected),
\* then the reconnect effect (deps isConnected, error, messageQueueSize).
Render ==
  /\ RenderPending
  /\ inTask = 0
  /\ LET conn == isConnected
         err == error
         ts == CleanupTimers(timers)
         flush == conn # rIsConnected /\ conn /\ Len(messageQueue) > 0
         st == IF flush
               THEN SendAll([Store EXCEPT !.queue = <<>>, !.size = 0, !.enq = <<>>,
                                          !.sent = <<>>],
                            messageQueue)
               ELSE [Store EXCEPT !.sent = <<>>]
         r == ReconnectEffect(conn, err, ts, connectionStatus, error)
     IN /\ (~conn /\ err = NULL /\ reconnectAttempts < maxReconnectAttempts)
             => CanSchedule(ts)
        /\ messageQueue' = st.queue
        /\ messageQueueSize' = st.size
        /\ sent' = st.sent
        /\ enqLog' = st.enq
        /\ timers' = r.timers
        /\ reconnectTimeoutRef' = r.ref
        /\ connectionStatus' = r.status
        /\ error' = r.error
        /\ hasCleanup' = r.cleanup
        /\ rIsConnected' = conn
        /\ rError' = err
        /\ rQueueSize' = messageQueueSize
  /\ UNCHANGED <<phase, urlValid, isConnected, wsRef, heartbeatRef,
                 reconnectAttempts, socks, inTask, heartbeats, inbound, opens>>
  /\ called' = NoCall
  /\ UNCHANGED perfVars
  /\ received' = NoMsg

(* ------------------------- timer callbacks ----------------------------- *)
\* setTimeout callback of the reconnect effect: reconnectAttempts++, connect()
ReconnectTimerFire(maxS) ==
  /\ inTask = 0
  /\ \E t \in timers :
       /\ urlValid => Len(socks) < maxS
       /\ timers' = timers \ {t}
       /\ reconnectAttempts' = reconnectAttempts + 1
       /\ LET c == connect
          IN /\ socks' = c.socks
             /\ wsRef' = c.wsRef
             /\ connectionStatus' = c.status
             /\ error' = c.error
  /\ UNCHANGED <<phase, urlValid, isConnected, messageQueueSize, messageQueue,
                 reconnectTimeoutRef, heartbeatRef, renderedDeps, inTask,
                 heartbeats, enqLog, inbound, opens>>
  /\ sent' = <<>>
  /\ called' = NoCall
  /\ UNCHANGED perfVars
  /\ received' = NoMsg

\* setInterval callback started by onopen of socket h
HeartbeatFire ==
  /\ inTask = 0
  /\ \E h \in heartbeats :
       sent' = IF socks[h.sock].rs = "open"
               THEN <<[sock |-> h.sock, kind |-> "heartbeat", id |-> 0,
                       timestamp |-> TRUE, header |-> FALSE]>>
               ELSE <<>>
  /\ called' = NoCall
  /\ UNCHANGED perfVars
  /\ received' = NoMsg
  /\ UNCHANGED <<phase, urlValid, reactState, wsRef, messageQueue,
                 latencyHistory, reconnectTimeoutRef, heartbeatRef,
                 reconnectAttempts, renderedDeps, socks, inTask, timers,
                 heartbeats, enqLog, counts>>

(* --------------------------- socket events ----------------------------- *)
\* onopen without reconnectAttempts.current = 0.
SocketOpenKeepsAttempts(s, maxO) ==
  /\ inTask = 0
  /\ opens < maxO
  /\ opens' = opens + 1
  /\ socks[s].rs = "connecting"
  /\ socks' = [socks EXCEPT ![s].rs = "open"]
  /\ heartbeatRef' = s
  /\ heartbeats' = heartbeats \cup {[sock |-> s, every |-> HeartbeatInterval]}
  /\ isConnected' = SetState(isConnected, TRUE)
  /\ error' = SetState(error, NULL)
  /\ messageQueueSize' = SetState(messageQueueSize, 0)
  /\ connectionStatus' = SetState(connectionStatus, "connected")
  /\ messageQueue' = <<>>
  /\ enqLog' = <<>>
  /\ UNCHANGED <<phase, urlValid, wsRef, reconnectTimeoutRef, renderedDeps,
                 inTask, timers, inbound, reconnectAttempts>>
  /\ sent' = <<>>
  /\ called' = NoCall
  /\ UNCHANGED perfVars
  /\ received' = NoMsg

\* ws.onopen of socket s
SocketOpenOf(s, maxO) ==
  /\ inTask = 0
  /\ opens < maxO
  /\ opens' = opens + 1
  /\ socks[s].rs = "connecting"
  /\ socks' = [socks EXCEPT ![s].rs = "open"]
  /\ heartbeatRef' = s
  /\ heartbeats' = heartbeats \cup {[sock |-> s, every |-> HeartbeatInterval]}
  /\ isConnected' = SetState(isConnected, TRUE)
  /\ error' = SetState(error, NULL)
  /\ messageQueueSize' = SetState(messageQueueSize, 0)
  /\ connectionStatus' = SetState(connectionStatus, "connected")
  /\ messageQueue' = <<>>
  /\ enqLog' = <<>>
  /\ reconnectAttempts' = 0
  /\ UNCHANGED <<phase, urlValid, wsRef, reconnectTimeoutRef, renderedDeps,
                 inTask, timers, inbound>>
  /\ sent' = <<>>
  /\ called' = NoCall
  /\ UNCHANGED perfVars
  /\ received' = NoMsg

SocketOpen(maxO) == \E s \in 1..Len(socks) : SocketOpenOf(s, maxO)

\* ws.onerror of socket s; the browser fires it in the task that closes a
\* failed connection, right before the close event.
SocketErrorOf(s) ==
  /\ inTask = 0
  /\ socks[s].rs \in {"connecting", "open", "closing"}
  /\ socks' = [socks EXCEPT ![s] = [rs |-> "closed", failed |-> FALSE]]
  /\ inTask' = s
  /\ error' = SetState(error, ErrSocket)
  /\ connectionStatus' = SetState(connectionStatus, "disconnected")
  /\ UNCHANGED <<phase, urlValid, isConnected, messageQueueSize, wsRef,
                 messageQueue, reconnectTimeoutRef, heartbeatRef,
                 reconnectAttempts, renderedDeps, timers, heartbeats,
                 enqLog, inbound, opens>>
  /\ sent' = <<>>
  /\ called' = NoCall
  /\ UNCHANGED perfVars
  /\ received' = NoMsg

SocketError == \E s \in 1..Len(socks) : SocketErrorOf(s)

\* onclose with setLastMessage(null).
SocketCloseClearsLast(s) ==
  /\ \/ inTask = s
     \/ /\ inTask = 0
        /\ \/ socks[s].rs = "open"
           \/ socks[s].rs = "closing" /\ ~socks[s].failed
  /\ socks' = [socks EXCEPT ![s] = [rs |-> "closed", failed |-> FALSE]]
  /\ inTask' = 0
  /\ isConnected' = SetState(isConnected, FALSE)
  /\ connectionStatus' = SetState(connectionStatus, "disconnected")
  /\ heartbeats' = ClearInterval(heartbeats, heartbeatRef)
  /\ heartbeatRef' = 0
  /\ lastMessage' = SetState(lastMessage, NoLast)
  /\ UNCHANGED <<phase, urlValid, error, messageQueueSize, wsRef, messageQueue,
                 reconnectTimeoutRef, reconnectAttempts, renderedDeps, timers,
                 enqLog, opens, averageLatency, latencyHistory, nextIn>>
  /\ sent' = <<>>
  /\ called' = NoCall
  /\ UNCHANGED perfVars
  /\ received' = NoMsg

\* ws.onclose of socket s: after its error event, or on a clean close.
SocketCloseOf(s) ==
  /\ \/ inTask = s
     \/ /\ inTask = 0
        /\ \/ socks[s].rs = "open"
           \/ socks[s].rs = "closing" /\ ~socks[s].failed
  /\ socks' = [socks EXCEPT ![s] = [rs |-> "closed", failed |-> FALSE]]
  /\ inTask' = 0
  /\ isConnected' = SetState(isConnected, FALSE)
  /\ connectionStatus' = SetState(connectionStatus, "disconnected")
  /\ heartbeats' = ClearInterval(heartbeats, heartbeatRef)
  /\ heartbeatRef' = 0
  /\ UNCHANGED <<phase, urlValid, error, messageQueueSize, wsRef, messageQueue,
                 reconnectTimeoutRef, reconnectAttempts, renderedDeps, timers,
                 enqLog, inbound, opens>>
  /\ sent' = <<>>
  /\ called' = NoCall
  /\ UNCHANGED perfVars
  /\ received' = NoMsg

SocketClose == \E s \in 1..Len(socks) : SocketCloseOf(s)

(* ----------------------------- inbound --------------------------------- *)
\* "text" is a payload JSON.parse rejects; the others are JSON objects with
\* that type ("data": any type but the two control types).
InKinds == {"ping", "heartbeat_response", "data", "text"}
ControlKinds == {"ping", "heartbeat_response"}
\* Date.now() - data.timestamp of a JSON message; 0 stands for no timestamp
InLatencies == {0, 40, 10000}

\* onmessage without the early returns of the two control types.
SocketMessageSurfacesAll(maxIn) ==
  /\ inTask = 0
  /\ nextIn <= maxIn
  /\ \E s \in 1..Len(socks), k \in InKinds, lat \in InLatencies :
       /\ socks[s].rs = "open"
       /\ k = "text" => lat = 0
       /\ received' = [id |-> nextIn, kind |-> k, lat |-> lat]
       /\ sent' = IF k = "ping"
                  THEN <<[sock |-> s, kind |-> "pong", id |-> 0,
                          timestamp |-> TRUE, header |-> FALSE]>>
                  ELSE <<>>
       /\ lastMessage' = SetState(lastMessage, [id |-> nextIn, kind |-> k])
       /\ LET sample == k # "text" /\ lat > 0 /\ lat < 10000
              pushed == Append(latencyHistory, lat)
              hist == IF Len(pushed) > LatencyWindow THEN Tail(pushed) ELSE pushed
          IN /\ latencyHistory' = IF sample THEN hist ELSE latencyHistory
             /\ averageLatency' = IF sample
                                  THEN SetState(averageLatency, <<SumSeq(hist), Len(hist)>>)
                                  ELSE averageLatency
  /\ nextIn' = nextIn + 1
  /\ UNCHANGED <<phase, urlValid, isConnected, error, messageQueueSize,
                 connectionStatus, wsRef, messageQueue, reconnectTimeoutRef,
                 heartbeatRef, reconnectAttempts, renderedDeps, socks, inTask,
                 timers, heartbeats, enqLog, opens>>
  /\ called' = NoCall
  /\ UNCHANGED perfVars

\* ws.onmessage of socket s, for a message of one of kinds with a latency of
\* lats.  The browser delivers message events only while the socket is open.
SocketMessageOf(maxIn, kinds, lats) ==
  /\ inTask = 0
  /\ nextIn <= maxIn
  /\ \E s \in 1..Len(socks), k \in kinds, lat \in lats :
       /\ socks[s].rs = "open"
       /\ k = "text" => lat = 0
       /\ received' = [id |-> nextIn, kind |-> k, lat |-> lat]
       /\ sent' = IF k = "ping"
                  THEN <<[sock |-> s, kind |-> "pong", id |-> 0,
                          timestamp |-> TRUE, header |-> FALSE]>>
                  ELSE <<>>
       /\ lastMessage' = IF k \in ControlKinds
                         THEN lastMessage
                         ELSE SetState(lastMessage, [id |-> nextIn, kind |-> k])
       /\ LET sample == k = "data" /\ lat > 0 /\ lat < 10000
              pushed == Append(latencyHistory, lat)
              hist == IF Len(pushed) > LatencyWindow THEN Tail(pushed) ELSE pushed
          IN /\ latencyHistory' = IF sample THEN hist ELSE latencyHistory
             /\ averageLatency' = IF sample
                                  THEN SetState(averageLatency, <<SumSeq(hist), Len(hist)>>)
                                  ELSE averageLatency
  /\ nextIn' = nextIn + 1
  /\ UNCHANGED <<phase, urlValid, isConnected, error, messageQueueSize,
                 connectionStatus, wsRef, messageQueue, reconnectTimeoutRef,
                 heartbeatRef, reconnectAttempts, renderedDeps, socks, inTask,
                 timers, heartbeats, enqLog, opens>>
  /\ called' = NoCall
  /\ UNCHANGED perfVars

\* ws.onmessage of socket s
SocketMessage(maxIn) == SocketMessageOf(maxIn, InKinds, InLatencies)

(* ---------------------------- sendMessage ------------------------------ *)
DataKinds == {"binary", "json"}

\* A call of sendMessage(data) by the consumer of the hook.  The message is
\* numbered by its place among those queued since the queue was last emptied.
SendMessage(maxEnq, kinds) ==
  /\ inTask = 0
  /\ phase = "mounted"
  /\ Len(enqLog) < maxEnq
  /\ \E k \in kinds :
       LET data == [id |-> Len(enqLog) + 1, kind |-> k]
           st == sendMessage([Store EXCEPT !.sent = <<>>], data)
       IN /\ messageQueue' = st.queue
          /\ messageQueueSize' = st.size
          /\ sent' = st.sent
          /\ enqLog' = st.enq
          /\ called' = data
          /\ received' = NoMsg
  /\ UNCHANGED <<phase, urlValid, isConnected, lastMessage, error,
                 averageLatency, connectionStatus, wsRef, latencyHistory,
                 reconnectTimeoutRef, heartbeatRef, reconnectAttempts,
                 renderedDeps, socks, inTask, timers, heartbeats, counts,
                 perfVars>>

(* ------------------------------ unmount -------------------------------- *)
\* The teardown without clearTimeout: the pending retry timer is left alone.
UnmountKeepsTimer ==
  /\ inTask = 0
  /\ phase = "mounted"
  /\ phase' = "unmounted"
  /\ socks' = IF wsRef # 0 THEN CloseSocket(socks, wsRef) ELSE socks
  /\ wsRef' = 0
  /\ heartbeats' = ClearInterval(heartbeats, heartbeatRef)
  /\ heartbeatRef' = 0
  /\ reconnectTimeoutRef' = 0
  /\ UNCHANGED <<urlValid, reactState, messageQueue, latencyHistory,
                 reconnectAttempts, renderedDeps, inTask, enqLog, counts,
                 timers>>
  /\ sent' = <<>>
  /\ called' = NoCall
  /\ UNCHANGED perfVars
  /\ received' = NoMsg

\* Effect cleanups of the last commit: disconnect(), the reconnect effect's
\* cleanup, disconnect() again.
Unmount ==
  /\ inTask = 0
  /\ phase = "mounted"
  /\ phase' = "unmounted"
  /\ socks' = IF wsRef # 0 THEN CloseSocket(socks, wsRef) ELSE socks
  /\ wsRef' = 0
  /\ heartbeats' = ClearInterval(heartbeats, heartbeatRef)
  /\ heartbeatRef' = 0
  /\ timers' = IF reconnectTimeoutRef # 0
               THEN {t \in timers : t.id # reconnectTimeoutRef} ELSE timers
  /\ reconnectTimeoutRef' = 0
  /\ UNCHANGED <<urlValid, reactState, messageQueue, latencyHistory,
                 reconnectAttempts, renderedDeps, inTask, enqLog, counts>>
  /\ sent' = <<>>
  /\ called' = NoCall
  /\ UNCHANGED perfVars
  /\ received' = NoMsg

(* --------------------------- LatencyMonitor ---------------------------- *)
lmMaxHistorySize == 20

\* The hook's variables other than the outputs of a step.
hookVars == <<phase, urlValid, reactState, wsRef, messageQueue, latencyHistory,
              reconnectTimeoutRef, heartbeatRef, reconnectAttempts,
              renderedDeps, socks, inTask, timers, heartbeats, enqLog, counts>>

\* A step outside the hook: the hook's state stays, its outputs are empty.
HookIdle ==
  /\ UNCHANGED hookVars
  /\ sent' = <<>>
  /\ called' = NoCall
  /\ received' = NoMsg

\* addLatency accepting 0 (>= for > in the range test).
addLatencyAcceptsZero(h, v) ==
  IF v >= 0 /\ v < 10000
  THEN LET pushed == Append(h, v)
       IN IF Len(pushed) > lmMaxHistorySize THEN Tail(pushed) ELSE pushed
  ELSE h

\* LatencyMonitor.addLatency on the window h
addLatency(h, v) ==
  IF v > 0 /\ v < 10000
  THEN LET pushed == Append(h, v)
       IN IF Len(pushed) > lmMaxHistorySize THEN Tail(pushed) ELSE pushed
  ELSE h

\* array.slice(from, to) for negative from and to, as a sequence.
SliceFromEnd(h, from, to) ==
  LET lo == IF Len(h) + from < 0 THEN 0 ELSE Len(h) + from
      hi == IF Len(h) + to < 0 THEN 0 ELSE Len(h) + to
  IN IF lo >= hi THEN <<>> ELSE SubSeq(h, lo + 1, hi)

\* The quotient n / m of two integers as the double JavaScript computes:
\* FloorLog2 is its binary exponent, RoundErr its rounding error in units of
\* 1 / (m * 2^(52 - exponent)) (round to nearest; m = 3 and m = 5 give no ties,
\* m = 1, 2 and 4 divide exactly).
FloorLog2(n, m) ==
  IF n = 0 THEN 0
  ELSE CHOOSE e \in -3..16 : Pow2(e + 3) * m <= 8 * n /\ 8 * n < Pow2(e + 4) * m

RECURSIVE Pow2Mod(_, _)
Pow2Mod(s, m) == IF s = 0 THEN 1 % m ELSE (2 * Pow2Mod(s - 1, m)) % m

RoundErr(n, m) ==
  IF n = 0 THEN 0
  ELSE LET r == ((n % m) * Pow2Mod(52 - FloorLog2(n, m), m)) % m
       IN IF 2 * r > m THEN m - r ELSE 0 - r

\* recentAvg - olderAvg, with recentAvg = rs / 5 and olderAvg = os / m as
\* doubles, compared with -10 and 10.  Away from an exact difference of 10 the
\* rounding errors cannot change the comparison; at an exact difference of 10
\* the double difference is above 10 when the two rounding errors add up to
\* more than half a unit in the last place of 10 (2^-50), and is 10 otherwise.
\* T is that sum and 160 * m that half unit, both in units of 1 / (5m * 2^55).
TrendOfSums(rs, os, m) ==
  LET d == m * rs - 5 * os
      T == RoundErr(rs, 5) * m * Pow2(FloorLog2(rs, 5) + 3)
             - RoundErr(os, m) * 5 * Pow2(FloorLog2(os, m) + 3)
  IN IF d < 0 - 50 * m THEN "improving"
     ELSE IF d > 50 * m THEN "degrading"
     ELSE IF d = 50 * m /\ T > 160 * m THEN "degrading"
     ELSE IF d = 0 - 50 * m /\ T < 0 - 160 * m THEN "improving"
     ELSE "stable"

\* LatencyMonitor.getLatencyTrend on the window h
getLatencyTrend(h) ==
  IF Len(h) < 5 THEN "stable"
  ELSE LET recent == SliceFromEnd(h, -5, 0)
           older == SliceFromEnd(h, -10, -5)
       IN IF older = <<>> THEN "stable"
          ELSE TrendOfSums(SumSeq(recent), SumSeq(older), Len(older))

\* Samples at and around the limits of the accepted range.
SpecialSamples == {-1, 0, 9999, 10000}

\* A call of addLatency(v) with v drawn from samples.
AddLatency(samples, maxLog, maxSpecial) ==
  /\ Len(lmLog) < maxLog
  /\ \E v \in samples :
       /\ v \in SpecialSamples => lmSpecials < maxSpecial
       /\ lmHistory' = addLatency(lmHistory, v)
       /\ lmLog' = IF 0 < v /\ v < 10000 THEN Append(lmLog, v) ELSE lmLog
       /\ lmLast' = [given |-> TRUE, v |-> v]
       /\ lmSpecials' = IF v \in SpecialSamples THEN lmSpecials + 1 ELSE lmSpecials
  /\ lmTrend' = "none"
  /\ UNCHANGED <<froVars, prodVars, mdVars>>
  /\ HookIdle

\* A call of getLatencyTrend()
GetLatencyTrend ==
  /\ lmTrend' = getLatencyTrend(lmHistory)
  /\ lmLast' = NoSample
  /\ UNCHANGED <<lmHistory, lmLog, lmSpecials>>
  /\ UNCHANGED <<froVars, prodVars, mdVars>>
  /\ HookIdle

\* The samples of the window runs: a fresh in-range value, or a special one.
WindowSamples == {Len(lmLog) + 1} \cup SpecialSamples

\* The samples of the trend runs.
TrendSamples == {1, 2, 27}

(* ------------------------- FrameRateOptimizer -------------------------- *)
froMaxHistorySize == 10
SentFramesLimit == 100
SentFramesKept == 50
SentTimesLimit == 20
SentTimesKept == 10
FpsUpdateInterval == 500
FpsWindow == 5
MinFrameRate == 5
MaxFrameRate == 15
HighLatency == 300
LowLatency == 50

\* timeSinceLastFrame < minFrameInterval, with minFrameInterval the double
\* 1000 / fps: for times in whole ms the comparison with the quotient and the
\* comparison of the products agree.
TooSoon(t, last, fps) == (t - last) * fps < 1000

\* shouldDropFrame moving the last-admit time on rejected calls too.
lastFrameTimeOnEveryCall(dropped, t, last) == t

\* lastFrameTime after a call of shouldDropFrame at time t
lastFrameTimeAfter(dropped, t, last) == IF dropped THEN last ELSE t

\* shouldDropFrame recording the time of rejected calls in the history too.
frameHistoryOnEveryCall(dropped, t, h) ==
  LET pushed == Append(h, t)
  IN IF Len(pushed) > froMaxHistorySize THEN Tail(pushed) ELSE pushed

\* frameHistory after a call of shouldDropFrame at time t: push, then shift
\* beyond maxHistorySize.
frameHistoryAfter(dropped, t, h) ==
  LET pushed == Append(h, t)
  IN IF dropped THEN h
     ELSE IF Len(pushed) > froMaxHistorySize THEN Tail(pushed) ELSE pushed

\* shouldDropFrame(): what it writes; froCall'.dropped is what it returns.
shouldDropFrame ==
  LET dropped == TooSoon(now, lastFrameTime, targetFps)
  IN /\ droppedFramesCount' =
          IF dropped THEN droppedFramesCount + 1 ELSE droppedFramesCount
     /\ lastFrameTime' = lastFrameTimeAfter(dropped, now, lastFrameTime)
     /\ frameHistory' = frameHistoryAfter(dropped, now, frameHistory)
     /\ frameCount' = IF dropped THEN frameCount ELSE frameCount + 1
     /\ froCall' = [NoFroCall EXCEPT !.op = "shouldDropFrame", !.dropped = dropped]
     /\ lastAdmit' = IF dropped THEN lastAdmit ELSE [some |-> TRUE, t |-> now]

\* A call of shouldDropFrame()
ShouldDropFrame(maxDrops) ==
  /\ droppedFramesCount < maxDrops
  /\ shouldDropFrame
  /\ UNCHANGED <<now, targetFps, lastFpsUpdate, sentFrames, sentFrameTimes, nextUuid>>
  /\ UNCHANGED <<lmVars, prodVars, mdVars>>
  /\ HookIdle

\* sentFrames.add(uuid) on the set in insertion order, cut to its last 50
\* beyond 100.
AddSentFrame(set, uuid) ==
  LET added == IF \E i \in 1..Len(set) : set[i] = uuid THEN set
               ELSE Append(set, uuid)
  IN IF Len(added) > SentFramesLimit THEN LastN(added, SentFramesKept) ELSE added

\* trackSentFrame keeping the whole history of sent times.
sentFrameTimesUncut(h, t) == Append(h, t)

\* sentFrameTimes after trackSentFrame at time t: push, then slice(-10)
\* beyond 20.
sentFrameTimesAfter(h, t) ==
  LET pushed == Append(h, t)
  IN IF Len(pushed) > SentTimesLimit THEN LastN(pushed, SentTimesKept)
     ELSE pushed

\* trackSentFrame(uuid): what it writes
trackSentFrame(uuid) ==
  /\ sentFrames' = AddSentFrame(sentFrames, uuid)
  /\ sentFrameTimes' = sentFrameTimesAfter(sentFrameTimes, now)
  /\ froCall' = [NoFroCall EXCEPT !.op = "trackSentFrame"]

\* A call of trackSentFrame(uuid) with a fresh uuid
TrackSentFrame(maxSent) ==
  /\ nextUuid <= maxSent
  /\ trackSentFrame(nextUuid)
  /\ nextUuid' = nextUuid + 1
  /\ UNCHANGED <<now, targetFps, frameHistory, lastFrameTime, frameCount,
                 lastFpsUpdate, droppedFramesCount, lastAdmit>>
  /\ UNCHANGED <<lmVars, prodVars, mdVars>>
  /\ HookIdle

\* A call of resetDroppedFramesCount()
ResetDroppedFramesCount ==
  /\ droppedFramesCount' = 0
  /\ sentFrameTimes' = <<>>
  /\ froCall' = [NoFroCall EXCEPT !.op = "resetDroppedFramesCount"]
  /\ UNCHANGED <<now, targetFps, frameHistory, lastFrameTime, frameCount,
                 lastFpsUpdate, sentFrames, nextUuid, lastAdmit>>
  /\ UNCHANGED <<lmVars, prodVars, mdVars>>
  /\ HookIdle

\* _calculateFps(): the quotient ((n - 1) * 1000) / timeSpan as a fraction
calculateFps(times) ==
  IF Len(times) < 2 THEN ZeroFps
  ELSE LET recent == LastN(times, FpsWindow)
           timeSpan == recent[Len(recent)] - recent[1]
       IN IF timeSpan = 0 THEN ZeroFps
          ELSE [num |-> (Len(recent) - 1) * 1000, den |-> timeSpan]

\* A call of getCurrentFps()
GetCurrentFps ==
  /\ lastFpsUpdate' =
       IF now - lastFpsUpdate < FpsUpdateInterval THEN lastFpsUpdate ELSE now
  /\ froCall' = [NoFroCall EXCEPT !.op = "getCurrentFps",
                                  !.fps = calculateFps(sentFrameTimes)]
  /\ UNCHANGED <<now, targetFps, frameHistory, lastFrameTime, frameCount,
                 sentFrames, droppedFramesCount, sentFrameTimes, nextUuid,
                 lastAdmit>>
  /\ UNCHANGED <<lmVars, prodVars, mdVars>>
  /\ HookIdle

\* currentFps < targetFps * 0.4 in doubles: the product is exact or rounds to
\* itself except for 6, 7, 12 and 14, where it rounds upwards, above the
\* double of an equal quotient.
BelowFourTenths(fps, t) ==
  \/ 10 * fps.num < 4 * t * fps.den
  \/ 10 * fps.num = 4 * t * fps.den /\ t \in {6, 7, 12, 14}

\* currentFps > targetFps * 1.5 (the product is exact)
AboveOneAndAHalf(fps, t) == 2 * fps.num > 3 * t * fps.den

\* adjustFrameRate without the floor of 5.
adjustFrameRateNoFloor(t, currentFps, latency) ==
  IF BelowFourTenths(currentFps, t) \/ latency > HighLatency
  THEN t - 1
  ELSE IF AboveOneAndAHalf(currentFps, t) /\ latency < LowLatency
  THEN Min(MaxFrameRate, t + 1)
  ELSE t

\* targetFps after adjustFrameRate(currentFps, latency)
adjustFrameRate(t, currentFps, latency) ==
  IF BelowFourTenths(currentFps, t) \/ latency > HighLatency
  THEN IF t - 1 > MinFrameRate THEN t - 1 ELSE MinFrameRate
  ELSE IF AboveOneAndAHalf(currentFps, t) /\ latency < LowLatency
  THEN Min(MaxFrameRate, t + 1)
  ELSE t

\* A call of adjustFrameRate(currentFps, latency)
AdjustFrameRate(fpsInputs, latInputs) ==
  /\ \E f \in fpsInputs, l \in latInputs :
       /\ targetFps' = adjustFrameRate(targetFps, f, l)
       /\ froCall' = [NoFroCall EXCEPT !.op = "adjustFrameRate", !.fps = f,
                                       !.lat = l, !.rate = targetFps']
  /\ UNCHANGED <<now, frameHistory, lastFrameTime, frameCount, lastFpsUpdate,
                 sentFrames, droppedFramesCount, sentFrameTimes, nextUuid,
                 lastAdmit>>
  /\ UNCHANGED <<lmVars, prodVars, mdVars>>
  /\ HookIdle

\* Time passes.
Tick(steps, maxNow) ==
  /\ \E d \in steps : now + d <= maxNow /\ now' = now + d
  /\ froCall' = NoFroCall
  /\ UNCHANGED <<froFields, nextUuid, lastAdmit>>
  /\ UNCHANGED <<lmVars, prodVars, mdVars>>
  /\ HookIdle

FrameSteps == {50}
FpsInputs == {[num |-> n, den |-> 1] : n \in {0, 4, 20}}
LatInputs == {0, 100, 400}

(* --------------------------- ArrayBufferUtils --------------------------- *)
METADATA_SIZE == 24
TIMESTAMP_OFFSET == 0
UUID_OFFSET == 8
UuidBytes == 16
Limb == 65536

\* Strings are sequences of one-character strings; a number that is an
\* integer from 0 up to 2^64 is the sequence of its four 16-bit digits, most
\* significant first (2^64 itself, which Number() can round to, has 65536 as
\* its first digit).
LowerHex == <<"0", "1", "2", "3", "4", "5", "6", "7", "8", "9",
              "a", "b", "c", "d", "e", "f">>
UpperHex == <<"0", "1", "2", "3", "4", "5", "6", "7", "8", "9",
              "A", "B", "C", "D", "E", "F">>

\* The value of a hexadecimal digit, -1 for any other character.
HexTable ==
  [c \in {LowerHex[i] : i \in 1..16} \cup {UpperHex[i] : i \in 1..16} |->
     (CHOOSE i \in 1..16 : LowerHex[i] = c \/ UpperHex[i] = c) - 1]

HexVal(c) == IF c \in DOMAIN HexTable THEN HexTable[c] ELSE -1

\* uuid.replace(/-/g, '')
RECURSIVE RemoveHyphens(_)
RemoveHyphens(s) ==
  IF s = <<>> THEN <<>>
  ELSE IF Head(s) = "-" THEN RemoveHyphens(Tail(s))
  ELSE <<Head(s)>> \o RemoveHyphens(Tail(s))

\* str.substr(start, 2) for start >= 0
Substr2(s, start) ==
  IF start >= Len(s) THEN <<>> ELSE SubSeq(s, start + 1, Min(start + 2, Len(s)))

\* bytes[i] = parseInt(two, 16) into a Uint8Array: the longest prefix of hex
\* digits is parsed, NaN (no digit at the start) is stored as 0.
ParseHexByte(two) ==
  IF two = <<>> \/ HexVal(two[1]) < 0 THEN 0
  ELSE IF Len(two) < 2 \/ HexVal(two[2]) < 0 THEN HexVal(two[1])
  ELSE 16 * HexVal(two[1]) + HexVal(two[2])

\* ArrayBufferUtils.uuidToBytes
uuidToBytes(uuid) ==
  LET cleanUuid == RemoveHyphens(uuid)
  IN [i \in 1..UuidBytes |-> ParseHexByte(Substr2(cleanUuid, (i - 1) * 2))]

\* byte.toString(16) without padStart(2, '0').
ByteToHexUnpadded(b) ==
  IF b < 16 THEN <<LowerHex[b + 1]>>
  ELSE <<LowerHex[(b \div 16) + 1], LowerHex[(b % 16) + 1]>>

\* byte.toString(16).padStart(2, '0')
ByteToHex(b) == <<LowerHex[(b \div 16) + 1], LowerHex[(b % 16) + 1]>>

RECURSIVE JoinHex(_)
JoinHex(bytes) ==
  IF bytes = <<>> THEN <<>> ELSE ByteToHex(Head(bytes)) \o JoinHex(Tail(bytes))

\* hex.slice(from, to) for 0 <= from <= to
SliceStr(s, from, to) ==
  IF from >= Min(to, Len(s)) THEN <<>> ELSE SubSeq(s, from + 1, Min(to, Len(s)))

\* ArrayBufferUtils.bytesToUuid
bytesToUuid(bytes) ==
  LET hex == JoinHex(bytes)
  IN SliceStr(hex, 0, 8) \o <<"-">> \o SliceStr(hex, 8, 12) \o <<"-">>
       \o SliceStr(hex, 12, 16) \o <<"-">> \o SliceStr(hex, 16, 20) \o <<"-">>
       \o SliceStr(hex, 20, 32)

\* setBigUint64(0, BigInt(timestamp), false): the eight bytes, big-endian.
BigUint64Bytes(n) ==
  <<n[1] \div 256, n[1] % 256, n[2] \div 256, n[2] % 256,
    n[3] \div 256, n[3] % 256, n[4] \div 256, n[4] % 256>>

\* getBigUint64(0, false) on the first eight bytes
BigUint64Of(b) ==
  <<b[1] * 256 + b[2], b[3] * 256 + b[4], b[5] * 256 + b[6], b[7] * 256 + b[8]>>

\* Number of bits of a 16-bit digit.
BitLength(d) == IF d = 0 THEN 0 ELSE CHOOSE k \in 1..16 : Pow2(k - 1) <= d /\ d < 2 ^ k

\* Adding one unit at the digit i, with the carry.
RECURSIVE Carry(_, _, _)
Carry(n, i, add) ==
  IF n[i] + add < Limb \/ i = 1 THEN [n EXCEPT ![i] = n[i] + add]
  ELSE Carry([n EXCEPT ![i] = n[i] + add - Limb], i - 1, 1)

\* Number(big): exact below 2^53; above, rounded to 53 significant bits, to
\* nearest, ties to even.  The rounded bits all lie in the last digit.
NumberOfBigInt(n) ==
  IF n[1] < 32 THEN n
  ELSE LET ulp == Pow2(BitLength(n[1]) - 5)
           r == n[4] % ulp
           down == [n EXCEPT ![4] = n[4] - r]
           odd == ((n[4] - r) \div ulp) % 2 = 1
       IN IF 2 * r > ulp \/ (2 * r = ulp /\ odd) THEN Carry(down, 4, ulp)
          ELSE down

\* ArrayBufferUtils.addMetadata: the combined buffer
addMetadata(buffer, timestamp, uuid) ==
  BigUint64Bytes(timestamp) \o uuidToBytes(uuid) \o buffer

\* extractMetadata reading past the end of a short buffer as zeros.
extractMetadataUnchecked(buffer) ==
  LET padded == buffer \o [i \in 1..METADATA_SIZE |-> 0]
  IN [error |-> "none",
      timestamp |-> NumberOfBigInt(BigUint64Of(SubSeq(padded, 1, 8))),
      uuid |-> bytesToUuid(SubSeq(padded, UUID_OFFSET + 1, UUID_OFFSET + UuidBytes)),
      data |-> IF Len(buffer) <= METADATA_SIZE THEN <<>>
               ELSE SubSeq(buffer, METADATA_SIZE + 1, Len(buffer))]

\* ArrayBufferUtils.extractMetadata: DataView.getBigUint64 throws a
\* RangeError when fewer than 8 bytes follow the offset, and
\* new Uint8Array(buffer, 8, 16) throws one when the buffer ends before
\* byte 24.
extractMetadata(buffer) ==
  IF Len(buffer) < TIMESTAMP_OFFSET + 8 THEN [NoExtract EXCEPT !.error = "RangeError"]
  ELSE IF UUID_OFFSET + UuidBytes > Len(buffer)
  THEN [NoExtract EXCEPT !.error = "RangeError"]
  ELSE [error |-> "none",
        timestamp |-> NumberOfBigInt(BigUint64Of(SubSeq(buffer, 1, 8))),
        uuid |-> bytesToUuid(SubSeq(buffer, UUID_OFFSET + 1, UUID_OFFSET + UuidBytes)),
        data |-> SubSeq(buffer, METADATA_SIZE + 1, Len(buffer))]

UuidLower ==
  <<"1", "2", "3", "e", "4", "5", "6", "7", "-", "e", "8", "9", "b", "-",
    "4", "2", "d", "3", "-", "a", "4", "5", "6", "-", "4", "2", "6", "6",
    "1", "4", "1", "7", "4", "0", "0", "0">>

UuidUpper ==
  <<"0", "A", "0", "B", "0", "C", "0", "D", "-", "F", "F", "E", "E", "-",
    "4", "D", "0", "C", "-", "8", "B", "0", "A", "-", "0", "0", "F", "F",
    "1", "0", "A", "B", "0", "E", "0", "F">>

UuidMixed ==
  <<"d", "e", "a", "d", "B", "E", "E", "F", "-", "0", "0", "0", "0", "-",
    "4", "0", "0", "0", "-", "8", "0", "0", "0", "-", "0", "0", "0", "0",
    "0", "0", "0", "0", "0", "0", "0", "a">>

UuidNotHex ==
  <<"n", "o", "t", "-", "a", "-", "u", "u", "i", "d">>

UuidShort ==
  <<"1", "2", "3", "e", "4", "5", "6", "7", "-", "e", "8", "9", "b">>

UuidBadDigit ==
  <<"1", "2", "3", "e", "4", "5", "6", "7", "-", "e", "8", "9", "b", "-",
    "4", "2", "d", "3", "-", "a", "4", "5", "6", "-", "4", "2", "6", "6",
    "1", "4", "1", "7", "4", "0", "0", "g">>

WellFormedUuids == {UuidLower, UuidUpper, UuidMixed}
MalformedUuids == {UuidNotHex, UuidShort, UuidBadDigit}

\* Integers that are numbers: 0, 1, a Date.now() of 2024, 2^53 - 1, 2^53, 2^63
\* and the largest number below 2^64.
Timestamps ==
  {<<0, 0, 0, 0>>,
   <<0, 0, 0, 1>>,
   <<0, 402, 52233, 5120>>,
   <<31, 65535, 65535, 65535>>,
   <<32, 0, 0, 0>>,
   <<32768, 0, 0, 0>>,
   <<65535, 65535, 65535, 63488>>}

Payloads == {<<>>, <<0>>, <<255, 1>>, <<1, 2, 3>>}

\* A call of addMetadata(buffer, timestamp, uuid); it throws for no string
\* uuid and no integer timestamp.
AddMetadata(payloads, timestamps, uuids) ==
  /\ \E p \in payloads, t \in timestamps, u \in uuids :
       /\ mdAdd' = [called |-> TRUE, buffer |-> p, timestamp |-> t, uuid |-> u,
                    error |-> "none"]
       /\ mdBuf' = addMetadata(p, t, u)
  /\ mdOut' = NoExtract
  /\ UNCHANGED <<lmVars, froVars, prodVars>>
  /\ HookIdle

\* Only the first n bytes of the buffer arrive.
TakePrefix ==
  /\ \E n \in 0..(Len(mdBuf) - 1) : mdBuf' = SubSeq(mdBuf, 1, n)
  /\ mdAdd' = NoAdd
  /\ mdOut' = NoExtract
  /\ UNCHANGED <<lmVars, froVars, prodVars>>
  /\ HookIdle

\* A call of extractMetadata(mdBuf)
ExtractMetadata ==
  /\ mdOut' = extractMetadata(mdBuf)
  /\ UNCHANGED <<mdAdd, mdBuf>>
  /\ UNCHANGED <<lmVars, froVars, prodVars>>
  /\ HookIdle

(* ----------------------------- PoseDetector ---------------------------- *)
QueueDropThreshold == 2

\* startStream() once getUserMedia has resolved
StartStream ==
  /\ inTask = 0
  /\ phase = "mounted"
  /\ ~isStreaming
  /\ isStreaming' = TRUE
  /\ frameCountRef' = 0
  /\ queueDroppedFramesRef' = 0
  /\ droppedFramesCount' = 0
  /\ sentFrameTimes' = <<>>
  /\ froCall' = [NoFroCall EXCEPT !.op = "resetDroppedFramesCount"]
  /\ frameDone' = NoFrame
  /\ UNCHANGED <<now, targetFps, frameHistory, lastFrameTime, frameCount,
                 lastFpsUpdate, sentFrames, nextUuid, lastAdmit, pendingFrames>>
  /\ UNCHANGED <<lmVars, mdVars>>
  /\ HookIdle

\* stopStream()
StopStream ==
  /\ inTask = 0
  /\ phase = "mounted"
  /\ isStreaming
  /\ isStreaming' = FALSE
  /\ froCall' = NoFroCall
  /\ frameDone' = NoFrame
  /\ UNCHANGED <<now, froFields, nextUuid, lastAdmit, pendingFrames,
                 queueDroppedFramesRef, frameCountRef>>
  /\ UNCHANGED <<lmVars, mdVars>>
  /\ HookIdle

\* sendFrame() called by the frame loop, up to canvas.toBlob: the closure in
\* use is the one of the last commit, with its isConnected and
\* messageQueueSize.
SendFrame(maxFrames, maxPending, maxDrops) ==
  /\ inTask = 0
  /\ phase = "mounted"
  /\ isStreaming
  /\ rIsConnected
  /\ frameCount < maxFrames
  /\ Len(pendingFrames) < maxPending
  /\ droppedFramesCount < maxDrops
  /\ shouldDropFrame
  /\ pendingFrames' =
       IF froCall'.dropped THEN pendingFrames
       ELSE Append(pendingFrames, [id |-> frameCount', queueSize |-> rQueueSize])
  /\ frameDone' = NoFrame
  /\ UNCHANGED <<now, targetFps, lastFpsUpdate, sentFrames, sentFrameTimes,
                 nextUuid, isStreaming, queueDroppedFramesRef, frameCountRef>>
  /\ UNCHANGED <<lmVars, mdVars>>
  /\ HookIdle

\* The callback of blob.arrayBuffer() for the oldest frame in preparation:
\* the frame is counted, then handed to sendMessage.
FrameReady ==
  /\ inTask = 0
  /\ pendingFrames # <<>>
  /\ LET f == Head(pendingFrames)
         data == [id |-> f.id, kind |-> "binary"]
         st == sendMessage([Store EXCEPT !.sent = <<>>], data)
     IN /\ IF f.queueSize > QueueDropThreshold
           THEN /\ queueDroppedFramesRef' = queueDroppedFramesRef + 1
                /\ froCall' = NoFroCall
                /\ UNCHANGED <<sentFrames, sentFrameTimes>>
           ELSE /\ trackSentFrame(f.id)
                /\ UNCHANGED queueDroppedFramesRef
        /\ messageQueue' = st.queue
        /\ messageQueueSize' = st.size
        /\ sent' = st.sent
        /\ enqLog' = st.enq
        /\ called' = data
        /\ received' = NoMsg
        /\ frameDone' =
             [id |-> f.id, queueSize |-> f.queueSize,
              counted |-> IF f.queueSize > QueueDropThreshold
                          THEN "queueDropped" ELSE "sent"]
  /\ frameCountRef' = frameCountRef + 1
  /\ pendingFrames' = Tail(pendingFrames)
  /\ UNCHANGED <<now, targetFps, frameHistory, lastFrameTime, frameCount,
                 lastFpsUpdate, droppedFramesCount, nextUuid, lastAdmit,
                 isStreaming>>
  /\ UNCHANGED <<lmVars, mdVars>>
  /\ UNCHANGED <<phase, urlValid, isConnected, lastMessage, error,
                 averageLatency, connectionStatus, wsRef, latencyHistory,
                 reconnectTimeoutRef, heartbeatRef, reconnectAttempts,
                 renderedDeps, socks, inTask, timers, heartbeats, counts>>

AdjustBelowFps == 5
AdjustAboveLatency == 500

\* updateFrameRate calling adjustFrameRate on every tick.
shouldAdjustAlways(fps, lat) == TRUE

\* The test of updateFrameRate before it calls adjustFrameRate
shouldAdjust(fps, lat) ==
  fps.num < AdjustBelowFps * fps.den \/ lat > AdjustAboveLatency

\* updateFrameRate(), run when its effect starts and by its interval every
\* second; the effect restarts on every change of averageLatency, frameRate
\* or messageQueueSize, so the call comes at any time.  It reads
\* averageLatency (a whole number in the runs that use it), records it in the
\* LatencyMonitor and retunes; setFrameRate stores the rate returned, so the
\* frameRate state is targetFps (both start at DefaultFrameRate).
UpdateFrameRate(maxLog, maxSpecial) ==
  /\ inTask = 0
  /\ phase = "mounted"
  /\ LET currentFps == calculateFps(sentFrameTimes)
         latency == averageLatency[1] \div averageLatency[2]
         inRange == 0 < latency /\ latency < 10000
     IN /\ latency \in SpecialSamples => lmSpecials < maxSpecial
        /\ inRange => Len(lmLog) < maxLog
        /\ lastFpsUpdate' =
             IF now - lastFpsUpdate < FpsUpdateInterval THEN lastFpsUpdate
             ELSE now
        /\ lmHistory' = addLatency(lmHistory, latency)
        /\ lmLog' = IF inRange THEN Append(lmLog, latency) ELSE lmLog
        /\ lmLast' = [given |-> TRUE, v |-> latency]
        /\ lmSpecials' =
             IF latency \in SpecialSamples THEN lmSpecials + 1 ELSE lmSpecials
        /\ lmTrend' = "none"
        /\ targetFps' =
             IF shouldAdjust(currentFps, latency)
             THEN adjustFrameRate(targetFps, currentFps, latency)
             ELSE targetFps
        /\ froCall' = [NoFroCall EXCEPT !.op = "updateFrameRate",
                                        !.fps = currentFps, !.lat = latency,
                                        !.rate = targetFps']
  /\ frameDone' = NoFrame
  /\ UNCHANGED <<now, frameHistory, lastFrameTime, frameCount, sentFrames,
                 droppedFramesCount, sentFrameTimes, nextUuid, lastAdmit,
                 isStreaming, pendingFrames, queueDroppedFramesRef,
                 frameCountRef>>
  /\ UNCHANGED mdVars
  /\ HookIdle

\* Latencies of the responses in the runs of the retuning: their means are
\* whole numbers.
RetuneKinds == {"data"}
RetuneLatencies == {600}

ProducerSteps == {100}

(* --------------------------- specifications ---------------------------- *)
\* Every event in any order, both kinds of payload.
Next ==
  \/ Mount
  \/ Render
  \/ ReconnectTimerFire(MaxSockets)
  \/ HeartbeatFire
  \/ SocketOpen(MaxOpens)
  \/ SocketError
  \/ SocketClose
  \/ SocketMessage(MaxIn)
  \/ SendMessage(MaxEnq, DataKinds)
  \/ Unmount

Spec == Init /\ [][Next]_vars

\* Runs long enough for five retries: more sockets and queued messages, one
\* kind of payload.
NextRetry ==
  \/ Mount
  \/ Render
  \/ ReconnectTimerFire(MaxSocketsR)
  \/ HeartbeatFire
  \/ SocketOpen(MaxOpensR)
  \/ SocketError
  \/ SocketClose
  \/ SendMessage(MaxEnqR, {"json"})

SpecRetry == Init /\ [][NextRetry]_vars

\* Runs long enough to overflow the queue.
NextQueue ==
  \/ Mount
  \/ Render
  \/ ReconnectTimerFire(MaxSocketsQ)
  \/ HeartbeatFire
  \/ SocketOpen(MaxOpensR)
  \/ SocketError
  \/ SocketClose
  \/ SendMessage(MaxEnqQ, {"json"})
  \/ Unmount

SpecQueue == Init /\ [][NextQueue]_vars

\* Runs with several inbound messages; nothing is sent by the consumer.
NextInbound ==
  \/ Mount
  \/ Render
  \/ ReconnectTimerFire(MaxSockets)
  \/ HeartbeatFire
  \/ SocketOpen(MaxOpens)
  \/ SocketError
  \/ SocketClose
  \/ SocketMessage(MaxInI)
  \/ Unmount

SpecInbound == Init /\ [][NextInbound]_vars

\* LatencyMonitor: runs that fill the window past its capacity.
NextWindow == AddLatency(WindowSamples, MaxWindowLog, MaxSpecial)

SpecWindow == Init /\ [][NextWindow]_vars

\* LatencyMonitor: runs that ask for the trend.
NextTrend ==
  \/ AddLatency(TrendSamples, MaxTrendLog, 0)
  \/ GetLatencyTrend

SpecTrend == Init /\ [][NextTrend]_vars

\* FrameRateOptimizer: calls of adjustFrameRate with inputs at and around the
\* thresholds of its rule.
AdjustFps ==
  {[num |-> 0, den |-> 1], [num |-> 3000, den |-> 1250], [num |-> 4, den |-> 1],
   [num |-> 15, den |-> 1], [num |-> 25, den |-> 1]}

AdjustLat == {0, 49, 50, 300, 301}

NextAdjust == AdjustFrameRate(AdjustFps, AdjustLat)

SpecAdjust == Init /\ [][NextAdjust]_vars

\* FrameRateOptimizer: admission of frames at the instants of a clock.
NextAdmit ==
  \/ Tick(FrameSteps, MaxNowA)
  \/ ShouldDropFrame(MaxDropsA)
  \/ AdjustFrameRate(FpsInputs, LatInputs)

SpecAdmit == Init /\ [][NextAdmit]_vars

\* FrameRateOptimizer: its public operations at the instants of a clock.
NextFrames ==
  \/ Tick(FrameSteps, MaxNow)
  \/ ShouldDropFrame(MaxDrops)
  \/ TrackSentFrame(MaxSent)
  \/ ResetDroppedFramesCount
  \/ GetCurrentFps
  \/ AdjustFrameRate(FpsInputs, LatInputs)

SpecFrames == Init /\ [][NextFrames]_vars

\* The producer: PoseDetector's frame loop over the hook and the optimizer.
NextProducer ==
  \/ Mount
  \/ Render
  \/ ReconnectTimerFire(MaxSocketsP)
  \/ SocketOpen(MaxOpensP)
  \/ SocketClose
  \/ StartStream
  \/ StopStream
  \/ Tick(ProducerSteps, MaxNowP)
  \/ SendFrame(MaxFramesP, MaxPendingP, MaxDropsP)
  \/ FrameReady

SpecProducer == Init /\ [][NextProducer]_vars

\* ArrayBufferUtils: encoding, truncation and decoding of buffers.
NextMetadata ==
  \/ AddMetadata(Payloads, Timestamps, WellFormedUuids \cup MalformedUuids)
  \/ TakePrefix
  \/ ExtractMetadata

SpecMetadata == Init /\ [][NextMetadata]_vars

\* FrameRateOptimizer: a frame loop long enough to fill both histories; the
\* frames are reported as sent in the last two instants.
NextHistory ==
  \/ Tick(ProducerSteps, MaxNowH)
  \/ ShouldDropFrame(MaxDropsH)
  \/ now > MaxNowH - 200 /\ TrackSentFrame(MaxSentH)

SpecHistory == Init /\ [][NextHistory]_vars

\* PoseDetector with its retuning tick, on a connection that stays open.
NextRetune ==
  \/ Mount
  \/ Render
  \/ SocketOpen(MaxOpensU)
  \/ SocketMessageOf(MaxInU, RetuneKinds, RetuneLatencies)
  \/ StartStream
  \/ Tick(ProducerSteps, MaxNowU)
  \/ SendFrame(MaxFramesU, MaxPendingU, MaxDropsU)
  \/ FrameReady
  \/ UpdateFrameRate(MaxLogU, MaxSpecialU)

SpecRetune == Init /\ [][NextRetune]_vars

\* Fairness of SpecRetry's events: React commits a pending render, a pending
\* timer fires, and a socket that is connecting or closing gets its next event.
SocketProgress(s) ==
  /\ s <= Len(socks)
  /\ socks[s].rs # "open"
  /\ (SocketOpenOf(s, MaxOpensR) \/ SocketErrorOf(s) \/ SocketCloseOf(s))

FairSpecRetry ==
  /\ SpecRetry
  /\ WF_vars(Render)
  /\ WF_vars(ReconnectTimerFire(MaxSocketsR))
  /\ \A s \in 1..MaxSocketsR : WF_vars(SocketProgress(s))

(* ------------------------------ claims --------------------------------- *)
Range(q) == {q[i] : i \in 1..Len(q)}

\* The step is a call of sendMessage by the consumer.
IsCall == called' # NoCall

\* C1: messages queued while the connection is down are all transmitted, in
\* enqueue order, when the socket opens: the open event discards none of them
\* (each is still queued or was handed to the socket), and the commit that
\* follows the open sends the whole queue, oldest first, on the open socket.
C1_QueuedFlushedOnOpen ==
  [][ /\ \A s \in 1..Len(socks) :
           (socks[s].rs = "connecting" /\ socks'[s].rs = "open")
             => \A m \in Range(messageQueue) :
                  \/ m \in Range(messageQueue')
                  \/ \E e \in Range(sent') : e.id = m.id /\ e.kind = m.kind
      /\ (isConnected /\ ~rIsConnected /\ rIsConnected' /\ WsOpen)
           => /\ Len(sent') = Len(messageQueue)
              /\ \A i \in 1..Len(messageQueue) :
                   /\ sent'[i].id = messageQueue[i].id
                   /\ sent'[i].sock = wsRef
    ]_vars

C3_SendWhenOpen ==
  [][ /\ WsOpen' => messageQueue' = <<>>
      /\ (IsCall /\ WsOpen)
           => /\ Len(sent') = 1
              /\ sent'[1].sock = wsRef
              /\ sent'[1].id = called'.id
              /\ sent'[1].kind = called'.kind
              /\ messageQueue' = <<>>
    ]_vars

C3_Witness ==
  /\ called # NoCall
  /\ WsOpen
  /\ Len(sent) = 1
  /\ sent[1].sock = wsRef
  /\ sent[1].kind = called.kind
  /\ messageQueue = <<>>
  /\ opens = 2

\* C4: every binary message handed to the socket by sendMessage carries the
\* 24-byte metadata header, every other message a timestamp.
C4_TransmissionsCarryMetadata ==
  \A e \in Range(sent) :
    /\ e.kind = "binary" => e.header
    /\ e.kind = "json" => e.timestamp

\* C5: the queue never holds more than 50 messages and always holds the most
\* recently enqueued ones in insertion order; an enqueue onto 50 messages
\* evicts exactly the oldest one.
C5_QueueKeepsNewest ==
  /\ [](Len(messageQueue) <= 50 /\ messageQueue = LastN(enqLog, 50))
  /\ [][ (IsCall /\ ~WsOpen /\ Len(messageQueue) = 50)
           => messageQueue' = Append(Tail(messageQueue), called') ]_vars

C5_Witness ==
  /\ Len(enqLog) = 51
  /\ Len(messageQueue) = 50
  /\ messageQueue[1].id = 2
  /\ messageQueue[50].id = 51

\* C6: while the component is mounted the reported messageQueueSize equals
\* the number of messages in the queue, and so never exceeds 50.
C6_ReportedSizeIsActual ==
  phase = "mounted" => (messageQueueSize = Len(messageQueue) /\ messageQueueSize <= 50)

\* C7: every change of connectionStatus follows an edge of the state diagram.
StatusEdges ==
  { <<"disconnected", "connecting">>, <<"connecting", "connected">>,
    <<"connected", "disconnected">>, <<"connecting", "disconnected">>,
    <<"disconnected", "reconnecting">>, <<"reconnecting", "connecting">> }

C7_StatusFollowsDiagram ==
  [][ connectionStatus' # connectionStatus
        => <<connectionStatus, connectionStatus'>> \in StatusEdges ]_vars

\* The step is a commit (Render is the only action that changes the rendered
\* dependency values).
IsCommit ==
  <<rIsConnected, rError, rQueueSize>>' # <<rIsConnected, rError, rQueueSize>>

\* C8: the commit that renders the loss of the current socket (close or error
\* event) with fewer than 5 attempts made and the max-attempts error not
\* surfaced leaves a reconnect timer pending.
C8_LossSchedulesRetry ==
  [][ ( /\ IsCommit
        /\ wsRef # 0
        /\ socks[wsRef].rs = "closed"
        /\ reconnectAttempts < 5
        /\ error # ErrMax )
      => timers' # {} ]_vars

\* C9: a retry scheduled at attempt count k waits min(1000 * 2^k, 30000) ms,
\* that is 1000, 2000, 4000, 8000, 16000, 30000 for k = 0..5, and the firing
\* timer adds exactly one to the counter in the step that creates the socket.
ExpectedDelays == <<1000, 2000, 4000, 8000, 16000, 30000>>

TimerFired ==
  /\ Cardinality(timers') < Cardinality(timers)
  /\ <<rIsConnected, rError, rQueueSize, phase>>' = <<rIsConnected, rError, rQueueSize, phase>>

C9_BackoffDelays ==
  /\ [](/\ \A k \in 0..5 : BackoffTime(k) = ExpectedDelays[k + 1]
        /\ \A t \in timers : t.delay = ExpectedDelays[t.attempt + 1])
  /\ [][ TimerFired
           => /\ reconnectAttempts' = reconnectAttempts + 1
              /\ urlValid => /\ Len(socks') = Len(socks) + 1
                             /\ wsRef' = Len(socks')
                             /\ socks'[wsRef'].rs = "connecting" ]_vars

C9_Witness ==
  /\ reconnectAttempts = 4
  /\ \E t \in timers : t.attempt = 4 /\ t.delay = 16000
  /\ wsRef = 5

\* C10: once the attempt counter has reached 5 the run settles, unless a
\* socket opens first, at status disconnected with the error 'Max reconnection
\* attempts reached' and no reconnect timer pending; while the counter is at 5
\* no reconnect timer is pending and no socket is created.
Settled ==
  /\ connectionStatus = "disconnected"
  /\ error = ErrMax
  /\ timers = {}

C10_MaxAttemptsSettles ==
  /\ (reconnectAttempts = 5) ~> (Settled \/ reconnectAttempts = 0)
  /\ [](reconnectAttempts = 5 => timers = {})
  /\ [][ reconnectAttempts = 5 => Len(socks') = Len(socks) ]_vars

\* The step is the open event of socket s.
Opened(s) == socks[s].rs = "connecting" /\ socks'[s].rs = "open"

\* C11: the open event of a socket leaves the attempt counter at 0 and the
\* error null, and starts a heartbeat interval of 30 s for that socket, which
\* heartbeatRef then names.
C11_OpenResetsAndStartsHeartbeat ==
  [][ \A s \in 1..Len(socks) :
        Opened(s) => /\ reconnectAttempts' = 0
                     /\ error' = NULL
                     /\ heartbeatRef' = s
                     /\ [sock |-> s, every |-> 30000] \in heartbeats' ]_vars

C11_Witness ==
  /\ opens = 2
  /\ wsRef = 2
  /\ WsOpen
  /\ reconnectAttempts = 0
  /\ error = NULL
  /\ heartbeatRef = 2
  /\ [sock |-> 2, every |-> 30000] \in heartbeats

\* C12: a heartbeat interval is live only while the status is connected.
C12_HeartbeatOnlyWhileConnected ==
  heartbeats # {} => connectionStatus = "connected"

\* C13: the teardown (disconnect() from the effect cleanups) cancels the
\* pending reconnect timer: once the component is unmounted no reconnect timer
\* is pending, none fires (the attempt counter stays) and no socket is created.
C13_DisconnectCancelsRetry ==
  /\ [](phase = "unmounted" => timers = {})
  /\ [][ phase = "unmounted"
           => /\ Len(socks') = Len(socks)
              /\ reconnectAttempts' = reconnectAttempts ]_vars

\* Unmounted with the timer of the last commit's reconnect effect never fired
\* (no attempt counted, no open that could have reset the counter).
C13_Witness ==
  /\ phase = "unmounted"
  /\ hasCleanup
  /\ reconnectAttempts = 0
  /\ opens = 0
  /\ timers = {}
  /\ reconnectTimeoutRef = 0

\* C14: a ping or heartbeat_response leaves lastMessage and the latency samples
\* as they were; any other inbound message becomes lastMessage; no other step
\* changes lastMessage, which is null until the first message.  So lastMessage
\* is always the most recent non-control message received.
C14_ControlMessagesAbsorbed ==
  /\ [](nextIn = 1 => lastMessage = NoLast)
  /\ [][ IF received' = NoMsg
         THEN lastMessage' = lastMessage
         ELSE IF received'.kind \in {"ping", "heartbeat_response"}
         THEN /\ lastMessage' = lastMessage
              /\ latencyHistory' = latencyHistory
              /\ averageLatency' = averageLatency
         ELSE lastMessage' = [id |-> received'.id, kind |-> received'.kind] ]_vars

\* A ping with a usable timestamp arrived after a data message.
C14_Witness ==
  /\ received = [id |-> 2, kind |-> "ping", lat |-> 40]
  /\ lastMessage = [id |-> 1, kind |-> "data"]
  /\ latencyHistory = <<40>>

\* C15: a step that changes a socket (open, error, close, connect, teardown)
\* or the reconnect timers leaves lastMessage as it was.
C15_LastMessageSurvivesDisconnect ==
  [][ (socks' # socks \/ timers' # timers \/ wsRef' # wsRef \/ inTask' # inTask)
        => lastMessage' = lastMessage ]_vars

\* A message arrived on the first socket, which then closed; the retry has
\* created the second socket.
C15_Witness ==
  /\ lastMessage # NoLast
  /\ opens = 1
  /\ Len(socks) = 2
  /\ socks[1].rs = "closed"
  /\ socks[2].rs = "connecting"
  /\ reconnectAttempts = 1

\* C16: the window of the LatencyMonitor is the last 20 of the samples given
\* to addLatency that satisfy 0 < sample < 10000, in arrival order; a sample
\* out of that range leaves the window unchanged, and an in-range sample
\* arriving at a full window evicts exactly the oldest one.
C16_WindowIsLast20Valid ==
  /\ [](lmHistory = LastN(lmLog, 20))
  /\ [][ lmLast'.given =>
           IF 0 < lmLast'.v /\ lmLast'.v < 10000
           THEN /\ lmLog' = Append(lmLog, lmLast'.v)
                /\ lmHistory' = IF Len(lmHistory) = 20
                                THEN Append(Tail(lmHistory), lmLast'.v)
                                ELSE Append(lmHistory, lmLast'.v)
           ELSE /\ lmLog' = lmLog
                /\ lmHistory' = lmHistory ]_vars

C16_Witness ==
  /\ lmLog = [i \in 1..21 |-> i]
  /\ lmSpecials = 2
  /\ lmHistory = [i \in 1..20 |-> i + 1]
  /\ lmLast = [given |-> TRUE, v |-> 21]

\* C17: getLatencyTrend returns 'stable' whenever fewer than 10 samples are
\* in the window, whatever their values.
C17_StableBelowTenSamples ==
  (lmTrend # "none" /\ Len(lmHistory) < 10) => lmTrend = "stable"

\* C18: with at least 10 samples in the window, getLatencyTrend returns
\* 'improving' iff the mean of the 5 most recent samples is more than 10 lower
\* than the mean of the 5 before them, 'degrading' iff it is more than 10
\* higher, and 'stable' otherwise, a difference of exactly 10 included.  The
\* means are compared through the sums: a difference of 10 in the means of
\* five is a difference of 50 in the sums.
C18_TrendComparesMeansOfFive ==
  (lmTrend # "none" /\ Len(lmHistory) >= 10) =>
    LET n == Len(lmHistory)
        recent == SumSeq(SubSeq(lmHistory, n - 4, n))
        older == SumSeq(SubSeq(lmHistory, n - 9, n - 5))
    IN lmTrend = IF recent - older < -50 THEN "improving"
                 ELSE IF recent - older > 50 THEN "degrading"
                 ELSE "stable"

\* C19: a call of shouldDropFrame made after an admitted call is rejected iff
\* the time elapsed since the last admitted call is less than
\* 1000 / targetFps; hence an admitted call comes at least 1000 / targetFps
\* after the admitted call before it, and rejected calls in between do not
\* move the instant from which the elapsed time is measured.
C19_RejectedIffTooSoon ==
  [][ (froCall'.op = "shouldDropFrame" /\ lastAdmit.some) =>
        /\ froCall'.dropped <=> (now - lastAdmit.t) * targetFps < 1000
        /\ ~froCall'.dropped => (now - lastAdmit.t) * targetFps >= 1000
        /\ froCall'.dropped => lastFrameTime' = lastAdmit.t ]_vars

C19_Witness ==
  /\ froCall.op = "shouldDropFrame" /\ ~froCall.dropped
  /\ targetFps = 10
  /\ now = 200
  /\ frameHistory = <<100, 200>>
  /\ lastFrameTime = 200
  /\ droppedFramesCount = 1

\* C20: the dropped-frame counter of the FrameRateOptimizer never decreases
\* over any sequence of its public operations.
C20_DroppedCounterNeverDecreases ==
  [][ droppedFramesCount' >= droppedFramesCount ]_vars

\* C21: starting from the default rate 10, after any sequence of calls of
\* adjustFrameRate targetFps is an integer from 5 to 15, and each call changes
\* it by at most 1.
C21_TargetFpsWithinFiveAndFifteen ==
  /\ [](targetFps \in MinFrameRate..MaxFrameRate)
  /\ [][ /\ targetFps' - targetFps \in {-1, 0, 1}
         /\ froCall'.rate = targetFps' ]_vars

C21_Witness ==
  /\ froCall.op = "adjustFrameRate"
  /\ froCall.lat = 301
  /\ froCall.rate = 5
  /\ targetFps = 5

\* C22: adjustFrameRate(currentFps, latency) sets targetFps to
\* max(5, targetFps - 1) if currentFps < 0.4 * targetFps or latency > 300,
\* otherwise to min(15, targetFps + 1) if currentFps > 1.5 * targetFps and
\* latency < 50, and otherwise leaves it unchanged.
C22_AdjustRule ==
  [][ LET f == froCall'.fps
          l == froCall'.lat
          t == targetFps
      IN targetFps' =
           IF 10 * f.num < 4 * t * f.den \/ l > 300
           THEN (IF t - 1 > 5 THEN t - 1 ELSE 5)
           ELSE IF 2 * f.num > 3 * t * f.den /\ l < 50
           THEN (IF t + 1 < 15 THEN t + 1 ELSE 15)
           ELSE t ]_vars

\* C23: a frame submitted by the producer while the reported queue size is
\* greater than 2 is dropped: it is counted in the queue-dropped counter and
\* is neither transmitted on the socket nor appended to the outbound queue.
C23_QueueOverflowFrameDropped ==
  [][ (frameCountRef' = frameCountRef + 1 /\ frameDone'.queueSize > 2) =>
        /\ queueDroppedFramesRef' = queueDroppedFramesRef + 1
        /\ sent' = <<>>
        /\ messageQueue' = messageQueue ]_vars

\* A well-formed UUID string: 32 hex digits grouped 8-4-4-4-12 by hyphens.
WellFormedUuid(u) ==
  /\ Len(u) = 36
  /\ \A i \in 1..36 : IF i \in {9, 14, 19, 24} THEN u[i] = "-" ELSE HexVal(u[i]) >= 0

LowerCase(u) ==
  [i \in 1..Len(u) |-> IF HexVal(u[i]) >= 0 THEN LowerHex[HexVal(u[i]) + 1] ELSE u[i]]

\* C24: for a payload, an integer timestamp that is a number below 2^64 and a
\* well-formed UUID string, the buffer made by addMetadata is exactly 24
\* bytes longer than the payload, and extractMetadata of it returns the same
\* timestamp, the same UUID in the 8-4-4-4-12 grouping up to the case of its
\* digits, and a payload equal to the input byte for byte.
C24_MetadataRoundTrip ==
  (mdAdd.called /\ WellFormedUuid(mdAdd.uuid)) =>
    /\ Len(mdBuf) = Len(mdAdd.buffer) + 24
    /\ mdOut.error # "no call" =>
         /\ mdOut.error = "none"
         /\ mdOut.timestamp = mdAdd.timestamp
         /\ WellFormedUuid(mdOut.uuid)
         /\ LowerCase(mdOut.uuid) = LowerCase(mdAdd.uuid)
         /\ mdOut.data = mdAdd.buffer

C24_Witness ==
  /\ mdAdd.called
  /\ mdAdd.uuid = UuidUpper
  /\ mdAdd.timestamp = <<65535, 65535, 65535, 63488>>
  /\ mdAdd.buffer = <<255, 1>>
  /\ mdOut.error = "none"
  /\ mdOut.uuid # mdAdd.uuid
  /\ mdOut.data = <<255, 1>>
  /\ Len(mdBuf) = 26

\* C25: extractMetadata applied to a buffer of length 0 to 23 fails with an
\* error and returns no (timestamp, uuid, payload) result.
C25_ShortBufferFails ==
  (mdOut.error # "no call" /\ Len(mdBuf) < 24) => mdOut.error = "RangeError"

C25_Witness ==
  /\ Len(mdBuf) = 23
  /\ mdOut.error = "RangeError"

\* The id has 32 hex digits once its hyphens are removed.
ParsesTo16Bytes(u) ==
  LET clean == RemoveHyphens(u)
  IN Len(clean) = 32 /\ \A i \in 1..32 : HexVal(clean[i]) >= 0

\* C26: addMetadata fails with an error when the id cannot be parsed into 16
\* bytes (non-hex characters or too few hex digits); it returns no buffer
\* whose id bytes were substituted.
C26_MalformedIdRejected ==
  (mdAdd.called /\ ~ParsesTo16Bytes(mdAdd.uuid)) => mdAdd.error # "none"

\* A step of sendMessage that pushed on a full queue and shifted the oldest
\* message out.
Evicted ==
  /\ IsCall
  /\ Len(messageQueue) = QueueLimit
  /\ Len(messageQueue') = QueueLimit
  /\ messageQueue' # messageQueue

\* C27: every eviction of a message from the outbound queue because of the
\* cap of 50 increments a caller-visible dropped-message counter by one.  The
\* hook returns isConnected, lastMessage, error, messageQueueSize,
\* averageLatency (a fraction here), connectionStatus and sendMessage: a
\* counter among them is one of its two numbers.
C27_EvictionCounted ==
  [][ Evicted => \/ messageQueueSize' = messageQueueSize + 1
                 \/ averageLatency'[1] * averageLatency[2] =
                      (averageLatency[1] + averageLatency[2])
                        * averageLatency'[2] ]_vars

\* C28: a rejected call of shouldDropFrame adds exactly 1 to the dropped-frame
\* counter and leaves lastFrameTime and frameHistory as they were; an admitted
\* call sets lastFrameTime to now, appends now to frameHistory (which keeps
\* its 10 most recent entries) and leaves the counter as it was.
C28_ShouldDropFrameEffects ==
  [][ froCall'.op = "shouldDropFrame" =>
        IF froCall'.dropped
        THEN /\ droppedFramesCount' = droppedFramesCount + 1
             /\ lastFrameTime' = lastFrameTime
             /\ frameHistory' = frameHistory
        ELSE /\ droppedFramesCount' = droppedFramesCount
             /\ lastFrameTime' = now
             /\ frameHistory' =
                  LastN(Append(frameHistory, now), froMaxHistorySize) ]_vars

C28_Witness ==
  /\ froCall.op = "shouldDropFrame" /\ ~froCall.dropped
  /\ droppedFramesCount = 1
  /\ frameCount = 11
  /\ lastFrameTime = now
  /\ frameHistory = <<200, 300, 400, 500, 600, 700, 800, 900, 1000, 1100>>

NonDecreasing(h) == \A i \in 1..(Len(h) - 1) : h[i] <= h[i + 1]

\* C29: after any sequence of calls of shouldDropFrame and trackSentFrame,
\* frameHistory holds at most 10 timestamps and sentFrameTimes at most 20;
\* a call of trackSentFrame that would bring sentFrameTimes to 21 entries
\* leaves the 10 most recent of them; both histories are non-decreasing.
C29_HistoriesBounded ==
  /\ [](/\ Len(frameHistory) <= 10
        /\ Len(sentFrameTimes) <= 20
        /\ NonDecreasing(frameHistory)
        /\ NonDecreasing(sentFrameTimes))
  /\ [][ (froCall'.op = "trackSentFrame" /\ Len(sentFrameTimes) = 20) =>
           sentFrameTimes' = LastN(Append(sentFrameTimes, now), 10) ]_vars

C29_Witness ==
  /\ froCall.op = "trackSentFrame"
  /\ nextUuid = 22
  /\ Len(sentFrameTimes) = 10
  /\ sentFrameTimes[1] = 1000 /\ sentFrameTimes[10] = 1100
  /\ Len(frameHistory) = 10 /\ frameHistory[1] = 200

\* C30: every timestamp entered in sentFrameTimes belongs to a frame that is
\* transmitted on the socket, and every frame transmitted on the socket is
\* entered there: a step that records a sent time transmits that frame, and
\* a frame that goes out on the socket is one trackSentFrame was called for.
C30_SentTimesAreTransmissions ==
  [][ /\ (sentFrameTimes' # sentFrameTimes /\ sentFrameTimes' # <<>>) =>
           \E i \in 1..Len(sent') :
             sent'[i].kind = "binary" /\ sent'[i].id = frameDone'.id
      /\ \A i \in 1..Len(sent') :
           sent'[i].kind = "binary" =>
             \E j \in 1..Len(sentFrames') : sentFrames'[j] = sent'[i].id ]_vars

\* C31: every performance tick of the producer applies the retuning rule to
\* the measured FPS and the average latency: a tick that observes
\* currentFps > 1.5 * targetFps and an average latency below 50 ms while
\* targetFps < 15 raises the target rate by 1.
C31_TickRaisesRate ==
  [][ LET f == froCall'.fps
      IN (/\ froCall'.op = "updateFrameRate"
          /\ 2 * f.num > 3 * targetFps * f.den
          /\ froCall'.lat < 50
          /\ targetFps < 15) => targetFps' = targetFps + 1 ]_vars

\* C39: in the composed producer the target frame rate never increases: it
\* changes only in a performance tick that observes currentFps < 5 or an
\* average latency above 500 ms, and then it decreases.
C39_RateNeverIncreases ==
  [][ /\ targetFps' <= targetFps
      /\ targetFps' # targetFps =>
           /\ froCall'.op = "updateFrameRate"
           /\ \/ froCall'.fps.num < 5 * froCall'.fps.den
              \/ froCall'.lat > 500 ]_vars

C39_Witness ==
  /\ froCall.op = "updateFrameRate"
  /\ froCall.fps = [num |-> 2000, den |-> 100]
  /\ froCall.lat = 600
  /\ froCall.rate = 8
  /\ targetFps = 8

\* C32: the reconnect-attempt counter stays within 0..5; it grows only by
\* one, in a step where a reconnect timer fires; a timer is scheduled only
\* while the counter is below 5; and it falls only to 0, in a socket open.
C32_AttemptsWithinZeroAndFive ==
  /\ [](reconnectAttempts \in 0..5)
  /\ [][ /\ reconnectAttempts' > reconnectAttempts =>
             /\ reconnectAttempts' = reconnectAttempts + 1
             /\ \E t \in timers : timers' = timers \ {t}
         /\ timers' \ timers # {} => reconnectAttempts' < 5
         /\ reconnectAttempts' < reconnectAttempts =>
             /\ reconnectAttempts' = 0
             /\ opens' = opens + 1 ]_vars

C32_Witness ==
  /\ reconnectAttempts = 5
  /\ opens = 1
  /\ Len(socks) = 6
  /\ timers = {}
  /\ error = ErrMax

\* C33: at most one reconnect timer is pending at any time, and none is
\* pending while isConnected is true.
C33_OneTimerNoneWhileConnected ==
  /\ Cardinality(timers) <= 1
  /\ isConnected => timers = {}

\* C34: at most one heartbeat timer is live at any time, and a heartbeat
\* message is only sent on a socket that is open.
C34_OneHeartbeatOnOpenSocket ==
  /\ Cardinality(heartbeats) <= 1
  /\ \A i \in 1..Len(sent) :
       sent[i].kind = "heartbeat" => socks[sent[i].sock].rs = "open"

\* A step is a close or error event of socket s.
SocketEventOf(s) ==
  /\ Len(socks') = Len(socks)
  /\ \/ socks'[s] # socks[s]
     \/ inTask = s /\ inTask' = 0

\* C35: events of a superseded socket do not affect the current connection:
\* once connect() has replaced socket A by socket B, a close, error or
\* message event of A changes neither isConnected, nor the connection status,
\* nor the error, nor the heartbeat timer of B.
C35_SupersededSocketIsInert ==
  [][ /\ \A s \in 1..Len(socks) :
           (s # wsRef /\ wsRef' = wsRef /\ SocketEventOf(s)) =>
             /\ UNCHANGED <<isConnected, connectionStatus, error>>
             /\ {h \in heartbeats' : h.sock = wsRef} =
                  {h \in heartbeats : h.sock = wsRef}
      /\ received' # NoMsg =>
           UNCHANGED <<isConnected, connectionStatus, error, heartbeats>> ]_vars

C37_NoRetryWhileError ==
  [][ /\ error' # NULL => timers' = {}
      /\ (error # NULL /\ error' = NULL) => opens' = opens + 1
      /\ error # NULL => reconnectAttempts' <= reconnectAttempts ]_vars

\* C38: in every reachable state the connection status is 'connected' exactly
\* when isConnected is true.
C38_ConnectedIffIsConnected ==
  (connectionStatus = "connected") <=> isConnected

TypeOK ==
  /\ phase \in {"init", "mounted", "unmounted"}
  /\ isConnected \in BOOLEAN
  /\ error \in {NULL, ErrSocket, ErrCreate, ErrMax}
  /\ connectionStatus \in {"connecting", "connected", "disconnected", "reconnecting"}
  /\ wsRef \in 0..Len(socks)
  /\ reconnectAttempts \in Nat
  /\ messageQueueSize \in Nat

====
